---- MODULE Spec2Model ----
(***************************************************************************)
(* State-machine model of its_leaftogo_bot.py: the tickets table, the      *)
(* users (roles) table, the per-user dialogue state (context.user_data)    *)
(* and the callback / text handlers that mutate them.                      *)
(*                                                                         *)
(* Every handler is a coroutine; it is modelled as one action per segment  *)
(* between two awaits on the store (get_ticket / update_ticket), so that   *)
(* handlers of different users may interleave at exactly those points.     *)
(* How many handlers run at once is the dispatcher's concurrent_updates:   *)
(* Spec starts with 1 (the Application of build_application, which runs    *)
(* one handler to completion before the next), RaceSpec with MaxInFlight   *)
(* (handlers of different users interleave at their awaits).               *)
(*                                                                         *)
(* Columns and locals that no handler reads back in a decision (chat_id,   *)
(* username, photo ids, assignee_name, updated_at, display names) are      *)
(* left out.  Python None is 0 for integer values and "None" for strings.  *)
(***************************************************************************)
EXTENDS Integers, Sequences, FiniteSets, TLC

VARIABLES
    tickets,        \* table tickets: row id -> row (AUTOINCREMENT ids 1..Len)
    users,          \* table users: uid -> role ("admin" | "tech" | "None")
    env_admin_ids,  \* ENV_ADMIN_IDS, read from the environment at start-up
    concurrent_updates, \* handlers the dispatcher runs at once
    user_data,      \* context.user_data of every user
    pc,             \* position of the running handler of every user
    loc,            \* locals of the running handler of every user
    clock,          \* now_local()
    reply,          \* the answer sent by the last handler segment
    assign_menus,   \* the assign_menu keyboard last shown to every user
    in_work_acks,   \* history: who was told "Статус: В работе" by to_work, for
                    \* which ticket, and the assignee_id their handler had read
    chosen,         \* history: what every user last entered at each step of
                    \* the repair dialogue last opened, until it is cancelled
    outbox          \* history: the cards and texts the notification loops tried
                    \* to send, each with its recipient and whether it arrived

\* The role tables and the dispatcher setting: no ticket handler writes them.
roles == <<users, env_admin_ids, concurrent_updates>>

vars == <<tickets, users, env_admin_ids, concurrent_updates, user_data, pc, loc,
          clock, reply, assign_menus, in_work_acks, chosen, outbox>>

(* ------------------------------ bounds -------------------------------- *)

MaxClock == 2       \* now_local() takes the values 1..MaxClock
MaxInFlight == 2    \* handlers of different users running at once (RaceSpec)
MaxTickets == 2     \* rows of the tickets table (DialogueSpec)

(* ----------------------------- constants ------------------------------ *)

KIND_REPAIR == "repair"
KIND_PURCHASE == "purchase"

STATUS_NEW == "new"
STATUS_IN_WORK == "in_work"
STATUS_DONE == "done"
STATUS_APPROVED == "approved"
STATUS_REJECTED == "rejected"
STATUS_CANCELED == "canceled"

PRIORITIES == <<"low", "normal", "high">>

\* The users of the model: 1 is the hard-coded admin, 2 and 3 are mechanics
\* (role tech in the users table).
Actors == {1, 2, 3}
HARD_ADMIN_IDS == {1}
ENV_TECH_IDS == {}

None == "None"
NoId == 0

\* Python truthiness ("not x") of an int-or-None and of a str-or-None value.
FalsyInt(x) == x = NoId
FalsyStr(x) == x \in {None, ""}

\* Inputs of the model: update.message.text of a reason message.
ReasonTexts == {"", " ", "r1"}

\* A strip() that leaves its argument as it is.
strip_Identity(s) == s

\* str.strip() on the texts of the model.
strip(s) == IF s = " " THEN "" ELSE s

(* ------------------------------ tickets ------------------------------- *)

NoTicket ==
    [kind |-> None, status |-> None, priority |-> None, user_id |-> NoId,
     description |-> None, assignee_id |-> NoId, location |-> None,
     equipment |-> None, reason |-> None, created_at |-> NoId,
     started_at |-> NoId, done_at |-> NoId]

\* INSERT INTO tickets: status new, no assignee, no reason, no started_at /
\* done_at, priority "normal" when none is given.
create_ticket(tbl, kind, user_id, description, location, equipment, priority, now_iso) ==
    Append(tbl,
        [kind |-> kind, status |-> STATUS_NEW,
         priority |-> IF FalsyStr(priority) THEN "normal" ELSE priority,
         user_id |-> user_id, description |-> description,
         assignee_id |-> NoId, location |-> location, equipment |-> equipment,
         reason |-> None, created_at |-> now_iso,
         started_at |-> NoId, done_at |-> NoId])

\* SELECT ... FROM tickets WHERE id=?: the row, or None.
get_ticket(tid) ==
    IF tid \in 1..Len(tickets) THEN tickets[tid] ELSE NoTicket

\* An update that replaces the row: the columns not given become NULL.
update_ticket_ReplaceRow(tbl, tid, fields) ==
    IF tid \in 1..Len(tbl)
    THEN [tbl EXCEPT ![tid] =
            [c \in DOMAIN @ |-> IF c \in DOMAIN fields THEN fields[c] ELSE NoTicket[c]]]
    ELSE tbl

\* UPDATE tickets SET <fields> WHERE id=?: unconditional on the stored row;
\* an absent id updates nothing.
update_ticket(tbl, tid, fields) ==
    IF tid \in 1..Len(tbl)
    THEN [tbl EXCEPT ![tid] =
            [c \in DOMAIN @ |-> IF c \in DOMAIN fields THEN fields[c] ELSE @[c]]]
    ELSE tbl

(* ------------------------------- roles -------------------------------- *)

is_admin(uid) ==
    \/ uid \in HARD_ADMIN_IDS
    \/ uid \in env_admin_ids
    \/ (uid \in DOMAIN users /\ users[uid] = "admin")

is_tech(uid) ==
    \/ uid \in ENV_TECH_IDS
    \/ is_admin(uid)
    \/ (uid \in DOMAIN users /\ users[uid] = "tech")

\* db_list_roles()[1]: the mechanics offered by the assign_menu keyboard.
db_list_techs == ENV_TECH_IDS \cup {u \in DOMAIN users : users[u] = "tech"}

(* ------------------------- handler bookkeeping ------------------------ *)

NoCtx == [action |-> None, ticket_id |-> NoId]

NoUserData ==
    [mode |-> None, reason_ctx |-> NoCtx, buy_ctx |-> NoId,
     repair_location |-> None, repair_equipment |-> None,
     repair_priority |-> None]

\* Nothing entered in the repair dialogue yet.
NoChoice ==
    [location |-> None, equipment |-> None, priority |-> None, went_back |-> FALSE]

NoLoc == [tid |-> NoId, t |-> NoTicket, now_iso |-> NoId, val |-> None]

NoReply == [uid |-> NoId, op |-> None, tid |-> NoId, msg |-> None]

\* The answer msg of handler op to user a about ticket tid.
Answer(a, op, tid, msg) == [uid |-> a, op |-> op, tid |-> tid, msg |-> msg]

\* No assign_menu keyboard on screen.
NoMenu == [tid |-> NoId, techs |-> {}]

\* Ticket ids a callback token carries: the stored ids.  (Rows are never
\* deleted; an absent id takes the not-found exits or an UPDATE that matches
\* no row, and writes nothing.)
TidInputs == 1..Len(tickets)

InFlight == Cardinality({a \in Actors : pc[a] # "idle"})

\* An update of user a is taken up: a has no handler running (updates of one
\* user are handled in order) and the dispatcher has a free slot.
CanStart(a) == pc[a] = "idle" /\ InFlight < concurrent_updates

\* A handler segment that ends the handler with an answer.
Return(a, op, tid, msg) ==
    /\ pc' = [pc EXCEPT ![a] = "idle"]
    /\ loc' = [loc EXCEPT ![a] = NoLoc]
    /\ reply' = Answer(a, op, tid, msg)

\* A handler segment that suspends at the next await on the store.
Goto(a, label, locals) ==
    /\ pc' = [pc EXCEPT ![a] = label]
    /\ loc' = [loc EXCEPT ![a] = locals]
    /\ reply' = NoReply

(* ------------- cb_handler: assign_to / assign_self (admin) ------------ *)

\* The ticket id is read from the card's text, the assignee from the token
\* (a button of the assign_menu keyboard).
AssignTo(a, tid, assignee) ==
    /\ CanStart(a)
    /\ IF ~is_admin(a)
       THEN /\ Return(a, "assign_to", tid, "no_rights")
            /\ UNCHANGED tickets
       ELSE /\ tickets' = update_ticket(tickets, tid, [assignee_id |-> assignee])
            /\ Return(a, "assign_to", tid, "assigned")
    /\ UNCHANGED <<roles, assign_menus, user_data, clock, in_work_acks, chosen, outbox>>

AssignSelf(a, tid) ==
    /\ CanStart(a)
    /\ IF ~is_admin(a)
       THEN /\ Return(a, "assign_self", tid, "no_rights")
            /\ UNCHANGED tickets
       ELSE /\ tickets' = update_ticket(tickets, tid, [assignee_id |-> a])
            /\ Return(a, "assign_self", tid, "assigned")
    /\ UNCHANGED <<roles, assign_menus, user_data, clock, in_work_acks, chosen, outbox>>

(* ----------------------- cb_handler: prio (admin) --------------------- *)

IndexOf(seq, x) == CHOOSE i \in 1..Len(seq) : seq[i] = x

Min(x, y) == IF x <= y THEN x ELSE y

\* The next priority taken cyclically: after the last one comes the first.
NextPriority_Wrap(cur) ==
    IF \E i \in 1..Len(PRIORITIES) : PRIORITIES[i] = cur
    THEN PRIORITIES[(IndexOf(PRIORITIES, cur) % Len(PRIORITIES)) + 1]
    ELSE "normal"

\* PRIORITIES[min(idx + 1, len(PRIORITIES) - 1)], "normal" if cur is unknown.
NextPriority(cur) ==
    IF \E i \in 1..Len(PRIORITIES) : PRIORITIES[i] = cur
    THEN PRIORITIES[Min(IndexOf(PRIORITIES, cur) + 1, Len(PRIORITIES))]
    ELSE "normal"

PrioGet(a, tid) ==
    /\ CanStart(a)
    /\ IF ~is_admin(a)
       THEN Return(a, "prio", tid, "no_rights")
       ELSE LET t == get_ticket(tid) IN
            IF t = NoTicket
            THEN Return(a, "prio", tid, "not_found")
            ELSE Goto(a, "prio_write",
                      [NoLoc EXCEPT !.tid = tid, !.t = t, !.val = NextPriority(t.priority)])
    /\ UNCHANGED <<tickets, roles, assign_menus, user_data, clock, in_work_acks, chosen, outbox>>

PrioWrite(a) ==
    /\ pc[a] = "prio_write"
    /\ tickets' = update_ticket(tickets, loc[a].tid, [priority |-> loc[a].val])
    /\ Return(a, "prio", loc[a].tid, "priority")
    /\ UNCHANGED <<roles, assign_menus, user_data, clock, in_work_acks, chosen, outbox>>

(* --------------------- cb_handler: to_work (claim) -------------------- *)

\* to_work without its status guard: the claim goes on whatever the stored
\* status is.
ToWorkGet_NoStatusGuard(a, tid) ==
    /\ CanStart(a)
    /\ LET t == get_ticket(tid) IN
        IF t = NoTicket \/ t.kind # KIND_REPAIR
        THEN Return(a, "to_work", tid, "bad_ticket")
        ELSE Goto(a, "to_work_check", [NoLoc EXCEPT !.tid = tid, !.t = t])
    /\ UNCHANGED <<tickets, roles, assign_menus, user_data, clock, in_work_acks, chosen, outbox>>

\* get_ticket and the kind / status guards.
ToWorkGet(a, tid) ==
    /\ CanStart(a)
    /\ LET t == get_ticket(tid) IN
        IF t = NoTicket \/ t.kind # KIND_REPAIR
        THEN Return(a, "to_work", tid, "bad_ticket")
        ELSE IF t.status # STATUS_NEW
        THEN Return(a, "to_work", tid, "not_new")
        ELSE Goto(a, "to_work_check", [NoLoc EXCEPT !.tid = tid, !.t = t])
    /\ UNCHANGED <<tickets, roles, assign_menus, user_data, clock, in_work_acks, chosen, outbox>>

\* to_work without the rule for tickets filed by an admin.
ToWorkCheck_NoAuthorGuard(a) ==
    /\ pc[a] = "to_work_check"
    /\ LET t == loc[a].t
           tid == loc[a].tid IN
        IF ~FalsyInt(t.assignee_id) /\ t.assignee_id # a /\ ~is_admin(a)
        THEN Return(a, "to_work", tid, "assigned_to_other")
        ELSE Goto(a,
                  IF FalsyInt(t.assignee_id) THEN "to_work_assign" ELSE "to_work_status",
                  [loc[a] EXCEPT !.now_iso = clock])
    /\ UNCHANGED <<tickets, roles, assign_menus, user_data, clock, in_work_acks, chosen, outbox>>

\* The two role guards, then now_iso = now_local().
ToWorkCheck(a) ==
    /\ pc[a] = "to_work_check"
    /\ LET t == loc[a].t
           tid == loc[a].tid
           author_is_admin == is_admin(t.user_id) IN
        IF author_is_admin /\ ~is_admin(a) /\ FalsyInt(t.assignee_id)
        THEN Return(a, "to_work", tid, "admin_must_assign")
        ELSE IF ~FalsyInt(t.assignee_id) /\ t.assignee_id # a /\ ~is_admin(a)
        THEN Return(a, "to_work", tid, "assigned_to_other")
        ELSE Goto(a,
                  IF FalsyInt(t.assignee_id) THEN "to_work_assign" ELSE "to_work_status",
                  [loc[a] EXCEPT !.now_iso = clock])
    /\ UNCHANGED <<tickets, roles, assign_menus, user_data, clock, in_work_acks, chosen, outbox>>

\* First write: the presser becomes the assignee (snapshot had none).
ToWorkAssign(a) ==
    /\ pc[a] = "to_work_assign"
    /\ tickets' = update_ticket(tickets, loc[a].tid, [assignee_id |-> a])
    /\ Goto(a, "to_work_status", loc[a])
    /\ UNCHANGED <<roles, assign_menus, user_data, clock, in_work_acks, chosen, outbox>>

\* Second write: status in_work and started_at, then the success answer.
ToWorkStatus(a) ==
    /\ pc[a] = "to_work_status"
    /\ LET t == loc[a].t
           tid == loc[a].tid IN
        /\ tickets' = update_ticket(tickets, tid,
                [status |-> STATUS_IN_WORK,
                 started_at |-> IF FalsyInt(t.started_at) THEN loc[a].now_iso
                                ELSE t.started_at])
        /\ in_work_acks' = in_work_acks \cup
                {[uid |-> a, tid |-> tid, assignee_id |-> t.assignee_id]}
        /\ Return(a, "to_work", tid, "in_work")
    /\ UNCHANGED <<roles, assign_menus, user_data, clock, chosen, outbox>>

(* -------------------- cb_handler: done (complete) --------------------- *)

\* done without its assignee-or-admin guard.
DoneGet_NoAuthGuard(a, tid) ==
    /\ CanStart(a)
    /\ LET t == get_ticket(tid) IN
        IF t = NoTicket \/ t.kind # KIND_REPAIR
        THEN Return(a, "done", tid, "bad_ticket")
        ELSE Goto(a,
                  IF FalsyInt(t.started_at) THEN "done_backfill" ELSE "done_status",
                  [NoLoc EXCEPT !.tid = tid, !.t = t])
    /\ UNCHANGED <<tickets, roles, assign_menus, user_data, clock, in_work_acks, chosen, outbox>>

\* get_ticket, the kind guard and the assignee-or-admin guard.
DoneGet(a, tid) ==
    /\ CanStart(a)
    /\ LET t == get_ticket(tid) IN
        IF t = NoTicket \/ t.kind # KIND_REPAIR
        THEN Return(a, "done", tid, "bad_ticket")
        ELSE IF t.assignee_id # a /\ ~is_admin(a)
        THEN Return(a, "done", tid, "only_assignee_or_admin")
        ELSE Goto(a,
                  IF FalsyInt(t.started_at) THEN "done_backfill" ELSE "done_status",
                  [NoLoc EXCEPT !.tid = tid, !.t = t])
    /\ UNCHANGED <<tickets, roles, assign_menus, user_data, clock, in_work_acks, chosen, outbox>>

\* started_at = now, when the snapshot had none.
DoneBackfill(a) ==
    /\ pc[a] = "done_backfill"
    /\ tickets' = update_ticket(tickets, loc[a].tid, [started_at |-> clock])
    /\ Goto(a, "done_status", loc[a])
    /\ UNCHANGED <<roles, assign_menus, user_data, clock, in_work_acks, chosen, outbox>>

\* done writing started_at = now again with its status write.
DoneStatus_Restamp(a) ==
    /\ pc[a] = "done_status"
    /\ tickets' = update_ticket(tickets, loc[a].tid,
            [status |-> STATUS_DONE, started_at |-> clock, done_at |-> clock])
    /\ Return(a, "done", loc[a].tid, "done")
    /\ UNCHANGED <<roles, assign_menus, user_data, clock, in_work_acks, chosen, outbox>>

\* status done and done_at = now, then the answer.
DoneStatus(a) ==
    /\ pc[a] = "done_status"
    /\ tickets' = update_ticket(tickets, loc[a].tid,
            [status |-> STATUS_DONE, done_at |-> clock])
    /\ Return(a, "done", loc[a].tid, "done")
    /\ UNCHANGED <<roles, assign_menus, user_data, clock, in_work_acks, chosen, outbox>>

(* ------------------ cb_handler: decline / approve / reject ------------ *)

AwaitReason(ud, action, tid) ==
    [ud EXCEPT !.mode = "await_reason",
               !.reason_ctx = [action |-> action, ticket_id |-> tid]]

Decline(a, tid) ==
    /\ CanStart(a)
    /\ LET t == get_ticket(tid) IN
        IF t = NoTicket \/ t.kind # KIND_REPAIR
        THEN /\ Return(a, "decline", tid, "bad_ticket")
             /\ UNCHANGED user_data
        ELSE IF t.assignee_id # a /\ ~is_admin(a)
        THEN /\ Return(a, "decline", tid, "only_assignee_or_admin")
             /\ UNCHANGED user_data
        ELSE /\ user_data' = [user_data EXCEPT
                                ![a] = AwaitReason(@, "decline_repair", tid)]
             /\ Return(a, "decline", tid, "write_reason")
    /\ UNCHANGED <<tickets, roles, assign_menus, clock, in_work_acks, chosen, outbox>>

Approve(a, tid) ==
    /\ CanStart(a)
    /\ IF ~is_admin(a)
       THEN /\ Return(a, "approve", tid, "no_rights")
            /\ UNCHANGED tickets
       ELSE /\ tickets' = update_ticket(tickets, tid, [status |-> STATUS_APPROVED])
            /\ Return(a, "approve", tid, "approved")
    /\ UNCHANGED <<roles, assign_menus, user_data, clock, in_work_acks, chosen, outbox>>

\* reject opening the reason step with the pending action "cancel".
Reject_AsCancel(a, tid) ==
    /\ CanStart(a)
    /\ IF ~is_admin(a)
       THEN /\ Return(a, "reject", tid, "no_rights")
            /\ UNCHANGED user_data
       ELSE /\ user_data' = [user_data EXCEPT ![a] = AwaitReason(@, "cancel", tid)]
            /\ Return(a, "reject", tid, "write_reason")
    /\ UNCHANGED <<tickets, roles, assign_menus, clock, in_work_acks, chosen, outbox>>

Reject(a, tid) ==
    /\ CanStart(a)
    /\ IF ~is_admin(a)
       THEN /\ Return(a, "reject", tid, "no_rights")
            /\ UNCHANGED user_data
       ELSE /\ user_data' = [user_data EXCEPT ![a] = AwaitReason(@, "reject", tid)]
            /\ Return(a, "reject", tid, "write_reason")
    /\ UNCHANGED <<tickets, roles, assign_menus, clock, in_work_acks, chosen, outbox>>

(* ------- on_text_button in mode await_reason: handle_reason_input ----- *)

\* A reset of the mode alone.
ClearReason_KeepCtx(ud) == [ud EXCEPT !.mode = None]

ClearReason(ud) == [ud EXCEPT !.mode = None, !.reason_ctx = NoCtx]

\* The text and context guards and get_ticket.
ReasonGet(a, text) ==
    /\ CanStart(a)
    /\ user_data[a].mode = "await_reason"
    /\ LET reason_text == strip(text)
           ctx == user_data[a].reason_ctx
           tid == ctx.ticket_id
           t == get_ticket(tid) IN
        IF FalsyStr(reason_text)
        THEN /\ Return(a, "reason", tid, "reason_empty")
             /\ UNCHANGED user_data
        ELSE IF FalsyInt(tid) \/ ctx.action \notin {"cancel", "reject", "decline_repair"}
        THEN /\ Return(a, "reason", tid, "context_lost")
             /\ user_data' = [user_data EXCEPT ![a] = ClearReason(@)]
        ELSE IF t = NoTicket
        THEN /\ Return(a, "reason", tid, "not_found")
             /\ user_data' = [user_data EXCEPT ![a] = ClearReason(@)]
        ELSE /\ Goto(a, "reason_apply",
                     [NoLoc EXCEPT !.tid = tid, !.t = t, !.val = reason_text])
             /\ UNCHANGED user_data
    /\ UNCHANGED <<tickets, roles, assign_menus, clock, in_work_acks, chosen, outbox>>

\* The write of the pending action, the answer, and the context reset.
ReasonApply(a) ==
    /\ pc[a] = "reason_apply"
    /\ LET action == user_data[a].reason_ctx.action
           tid == loc[a].tid
           t == loc[a].t
           reason_text == loc[a].val IN
        CASE action = "cancel" ->
                /\ tickets' = update_ticket(tickets, tid,
                        [status |-> STATUS_CANCELED, reason |-> reason_text])
                /\ Return(a, "reason", tid, "canceled")
          [] action = "reject" ->
                /\ tickets' = update_ticket(tickets, tid,
                        [status |-> STATUS_REJECTED, reason |-> reason_text])
                /\ Return(a, "reason", tid, "rejected")
          [] OTHER ->
                IF t.assignee_id # a
                THEN /\ Return(a, "reason", tid, "only_assignee")
                     /\ UNCHANGED tickets
                ELSE /\ tickets' = update_ticket(tickets, tid,
                            [status |-> STATUS_REJECTED, reason |-> reason_text])
                     /\ Return(a, "reason", tid, "declined")
    /\ user_data' = [user_data EXCEPT ![a] = ClearReason(@)]
    /\ UNCHANGED <<roles, assign_menus, clock, in_work_acks, chosen, outbox>>

(* ------------------------------ cmd_start ----------------------------- *)

Start(a) ==
    /\ CanStart(a)
    /\ user_data' = [user_data EXCEPT ![a] = NoUserData]
    /\ chosen' = [chosen EXCEPT ![a] = NoChoice]
    /\ Return(a, "start", NoId, "start")
    /\ UNCHANGED <<tickets, roles, assign_menus, clock, in_work_acks, outbox>>

(* ------ cmd_add_tech / cmd_add_admin / cmd_remove_mechanic (admin) ----- *)

\* INSERT INTO users ... ON CONFLICT(uid) DO UPDATE SET role.
db_add_user_role(tbl, uid, role) == [tbl EXCEPT ![uid] = role]

\* A removal that takes one role off: an admin row becomes a mechanic row.
db_remove_user_role_StepDown(tbl, uid) ==
    [tbl EXCEPT ![uid] = IF @ = "admin" THEN "tech" ELSE None]

\* DELETE FROM users WHERE uid=?.
db_remove_user_role(tbl, uid) == [tbl EXCEPT ![uid] = None]

AddTech(a, target) ==
    /\ CanStart(a)
    /\ IF ~is_admin(a)
       THEN /\ Return(a, "add_tech", NoId, "no_rights")
            /\ UNCHANGED users
       ELSE /\ users' = db_add_user_role(users, target, "tech")
            /\ Return(a, "add_tech", NoId, "added")
    /\ UNCHANGED <<tickets, env_admin_ids, concurrent_updates, assign_menus,
                   user_data, clock, in_work_acks, chosen, outbox>>

AddAdmin(a, target) ==
    /\ CanStart(a)
    /\ IF ~is_admin(a)
       THEN /\ Return(a, "add_admin", NoId, "no_rights")
            /\ UNCHANGED users
       ELSE /\ users' = db_add_user_role(users, target, "admin")
            /\ Return(a, "add_admin", NoId, "added")
    /\ UNCHANGED <<tickets, env_admin_ids, concurrent_updates, assign_menus,
                   user_data, clock, in_work_acks, chosen, outbox>>

RemoveMechanic(a, target) ==
    /\ CanStart(a)
    /\ IF ~is_admin(a)
       THEN /\ Return(a, "remove_mechanic", NoId, "no_rights")
            /\ UNCHANGED users
       ELSE IF target \in HARD_ADMIN_IDS
       THEN /\ Return(a, "remove_mechanic", NoId, "hard_admin")
            /\ UNCHANGED users
       ELSE /\ users' = db_remove_user_role(users, target)
            /\ Return(a, "remove_mechanic", NoId, "removed")
    /\ UNCHANGED <<tickets, env_admin_ids, concurrent_updates, assign_menus,
                   user_data, clock, in_work_acks, chosen, outbox>>

(* -------------------- cb_handler: assign_menu (admin) ------------------ *)

\* The card of ticket tid gets one assign_to button per mechanic of
\* db_list_roles, as of now.
AssignMenu(a, tid) ==
    /\ CanStart(a)
    /\ IF ~is_admin(a)
       THEN /\ Return(a, "assign_menu", tid, "no_rights")
            /\ UNCHANGED assign_menus
       ELSE /\ assign_menus' = [assign_menus EXCEPT
                                  ![a] = [tid |-> tid, techs |-> db_list_techs]]
            /\ Return(a, "assign_menu", tid, "menu")
    /\ UNCHANGED <<tickets, roles, user_data, clock, in_work_acks, chosen, outbox>>

(* ------------- on_text_button: the repair / purchase dialogue ---------- *)

\* Texts of the reply-keyboard buttons and the catalogues, one entry each.
\* EQUIP_CANCEL and EQUIP_BACK are the same texts as LOC_CANCEL and LOC_BACK.
MENU_REPAIR == "menu_repair"
MENU_PURCHASE == "menu_purchase"
LOCATIONS == {"loc1"}
LOC_OTHER == "other_location"
LOC_CANCEL == "cancel"
LOC_BACK == "back"
EQUIP_OTHER == "other_equipment"
EQUIP_CANCEL == LOC_CANCEL
EQUIP_BACK == LOC_BACK
PRIO_LOW == "prio_low"
PRIO_NORMAL == "prio_normal"

\* EQUIPMENT_BY_LOCATION.get(chosen_loc, []).
EQUIPMENT_BY_LOCATION(chosen_loc) ==
    IF chosen_loc = "loc1" THEN {"eq1"} ELSE {}

\* pr_map of the priority step.
pr_map == [t \in {PRIO_LOW, PRIO_NORMAL} |-> IF t = PRIO_LOW THEN "low" ELSE "normal"]

\* Text messages a user sends: the buttons, catalogue entries, free text, and
\* a blank text.
TextInputs ==
    {MENU_REPAIR, MENU_PURCHASE, LOC_OTHER, LOC_CANCEL, LOC_BACK, EQUIP_OTHER,
     PRIO_LOW, PRIO_NORMAL, "loc1", "eq1", "x", " "}

\* Captions of the photos a user sends (a photo may have none).
CaptionInputs == {"", "x"}

\* The user who files tickets.
DialogueUsers == {1}

\* A cancel that leaves the dialogue but keeps what was collected.
CancelRepair_KeepFields(ud) == [ud EXCEPT !.mode = None]

\* "Полная отмена": mode and the three collected fields are reset.
CancelRepair(ud) ==
    [ud EXCEPT !.mode = None, !.repair_location = None,
               !.repair_equipment = None, !.repair_priority = None]

\* A location is entered but an earlier one is kept.
SetLocation_KeepFirst(ud, text_in) ==
    [ud EXCEPT !.repair_location = IF FalsyStr(@) THEN text_in ELSE @,
               !.mode = "choose_equipment"]

\* UD_REPAIR_LOC = text_in, mode choose_equipment.
SetLocation(ud, text_in) ==
    [ud EXCEPT !.repair_location = text_in, !.mode = "choose_equipment"]

\* UD_REPAIR_EQUIP = text_in, mode choose_priority_repair.
SetEquipment(ud, text_in) ==
    [ud EXCEPT !.repair_equipment = text_in, !.mode = "choose_priority_repair"]

\* The steps of the dialogue up to the description: the new user_data, the
\* new history and the answer for text text_in in the mode of ud.
\* msg "none" when the text is not for these steps.
DialogueStep(ud, ch, text_in) ==
    LET mode == ud.mode
        Out(u, c, m) == [ud |-> u, ch |-> c, msg |-> m] IN
    IF text_in = MENU_REPAIR /\ mode = None
    THEN Out([CancelRepair(ud) EXCEPT !.mode = "choose_location_repair"],
             NoChoice, "choose_location")
    ELSE IF mode = "choose_location_repair"
    THEN IF text_in = LOC_CANCEL
         THEN Out(CancelRepair(ud), NoChoice, "cancelled")
         ELSE IF text_in = LOC_OTHER
         THEN Out([ud EXCEPT !.mode = "input_location_repair"], ch, "enter_location")
         ELSE IF text_in \in LOCATIONS
         THEN Out(SetLocation(ud, text_in), [ch EXCEPT !.location = text_in],
                  "choose_equipment")
         ELSE Out(ud, ch, "pick_location")
    ELSE IF mode = "input_location_repair"
    THEN IF text_in = LOC_CANCEL
         THEN Out(CancelRepair(ud), NoChoice, "cancelled")
         ELSE IF FalsyStr(text_in) \/ text_in = LOC_OTHER
         THEN Out(ud, ch, "bad_location")
         ELSE Out(SetLocation(ud, text_in), [ch EXCEPT !.location = text_in],
                  "choose_equipment")
    ELSE IF mode = "choose_equipment"
    THEN IF text_in = EQUIP_BACK
         THEN Out([ud EXCEPT !.mode = "choose_location_repair",
                             !.repair_equipment = None],
                  [ch EXCEPT !.went_back = TRUE], "choose_location")
         ELSE IF text_in = EQUIP_CANCEL
         THEN Out(CancelRepair(ud), NoChoice, "cancelled")
         ELSE IF text_in = EQUIP_OTHER
         THEN Out([ud EXCEPT !.mode = "input_equipment_custom"], ch, "enter_equipment")
         ELSE IF text_in \in EQUIPMENT_BY_LOCATION(ud.repair_location)
         THEN Out(SetEquipment(ud, text_in), [ch EXCEPT !.equipment = text_in],
                  "choose_priority")
         ELSE Out(ud, ch, "pick_equipment")
    ELSE IF mode = "input_equipment_custom"
    THEN IF text_in = LOC_CANCEL
         THEN Out(CancelRepair(ud), NoChoice, "cancelled")
         ELSE IF FalsyStr(text_in) \/ text_in = EQUIP_OTHER
         THEN Out(ud, ch, "bad_equipment")
         ELSE Out(SetEquipment(ud, text_in), [ch EXCEPT !.equipment = text_in],
                  "choose_priority")
    ELSE IF mode = "choose_priority_repair"
    THEN IF text_in = LOC_BACK
         THEN Out([ud EXCEPT !.mode = "choose_equipment", !.repair_priority = None],
                  [ch EXCEPT !.went_back = TRUE], "choose_equipment")
         ELSE IF text_in = LOC_CANCEL
         THEN Out(CancelRepair(ud), NoChoice, "cancelled")
         ELSE IF text_in \in DOMAIN pr_map
         THEN Out([ud EXCEPT !.repair_priority = pr_map[text_in],
                             !.mode = "create_repair"],
                  [ch EXCEPT !.priority = pr_map[text_in]], "describe")
         ELSE Out(ud, ch, "pick_priority")
    ELSE IF text_in = MENU_PURCHASE /\ mode = None
    THEN Out([ud EXCEPT !.mode = "create_purchase"], ch, "describe_purchase")
    ELSE Out(ud, ch, "none")

\* The description of the purchase ticket filed from a repair ticket: a
\* sentence around the text, never empty.
BuyDescription(tid, text_in) == "part for ticket"

\* handle_create_from_text without its test of the description.
handle_create_from_text_NoEmptyTest(a, text) ==
    LET ud == user_data[a]
        description == strip(text) IN
    IF ud.mode = "create_repair"
    THEN IF FalsyStr(ud.repair_location)
         THEN /\ user_data' = [user_data EXCEPT ![a].mode = "choose_location_repair"]
              /\ Return(a, "text", NoId, "choose_location")
              /\ UNCHANGED <<tickets, chosen>>
         ELSE /\ tickets' = create_ticket(tickets, KIND_REPAIR, a, description,
                                ud.repair_location, ud.repair_equipment,
                                ud.repair_priority, clock)
              /\ user_data' = [user_data EXCEPT ![a] = CancelRepair(@)]
              /\ Return(a, "text", Len(tickets) + 1, "created_repair")
              /\ UNCHANGED chosen
    ELSE /\ tickets' = create_ticket(tickets, KIND_PURCHASE, a, description,
                            None, None, None, clock)
         /\ user_data' = [user_data EXCEPT ![a].mode = None]
         /\ Return(a, "text", Len(tickets) + 1, "created_purchase")
         /\ UNCHANGED chosen

\* handle_create_from_text: the text sent in mode create_repair or
\* create_purchase becomes the description of a new ticket.
handle_create_from_text(a, text) ==
    LET ud == user_data[a]
        description == strip(text) IN
    IF FalsyStr(description)
    THEN /\ Return(a, "text", NoId, "describe_in_text")
         /\ UNCHANGED <<tickets, user_data, chosen>>
    ELSE IF ud.mode = "create_repair"
    THEN IF FalsyStr(ud.repair_location)
         THEN /\ user_data' = [user_data EXCEPT ![a].mode = "choose_location_repair"]
              /\ Return(a, "text", NoId, "choose_location")
              /\ UNCHANGED <<tickets, chosen>>
         ELSE /\ tickets' = create_ticket(tickets, KIND_REPAIR, a, description,
                                ud.repair_location, ud.repair_equipment,
                                ud.repair_priority, clock)
              /\ user_data' = [user_data EXCEPT ![a] = CancelRepair(@)]
              /\ Return(a, "text", Len(tickets) + 1, "created_repair")
              /\ UNCHANGED chosen
    ELSE /\ tickets' = create_ticket(tickets, KIND_PURCHASE, a, description,
                            None, None, None, clock)
         /\ user_data' = [user_data EXCEPT ![a].mode = None]
         /\ Return(a, "text", Len(tickets) + 1, "created_purchase")
         /\ UNCHANGED chosen

\* on_text_button for a text that is not a reason: the dialogue steps, the
\* purchase filed from a repair ticket, the description, or the fallback.
\* (Mode await_done_photo is never set by any handler.)
OnTextButton(a, text) ==
    /\ CanStart(a)
    /\ user_data[a].mode # "await_reason"
    /\ LET text_in == strip(text)
           ud == user_data[a]
           step == DialogueStep(ud, chosen[a], text_in) IN
        IF step.msg # "none"
        THEN /\ user_data' = [user_data EXCEPT ![a] = step.ud]
             /\ chosen' = [chosen EXCEPT ![a] = step.ch]
             /\ Return(a, "text", NoId, step.msg)
             /\ UNCHANGED tickets
        ELSE IF ud.mode = "await_buy_desc"
        THEN IF FalsyInt(ud.buy_ctx)
             THEN /\ user_data' = [user_data EXCEPT ![a].mode = None,
                                                    ![a].buy_ctx = NoId]
                  /\ Return(a, "text", NoId, "no_repair_ticket")
                  /\ UNCHANGED <<tickets, chosen>>
             ELSE /\ tickets' = create_ticket(tickets, KIND_PURCHASE, a,
                                    BuyDescription(ud.buy_ctx, text_in),
                                    None, None, None, clock)
                  /\ user_data' = [user_data EXCEPT ![a].mode = None,
                                                    ![a].buy_ctx = NoId]
                  /\ Return(a, "text", Len(tickets) + 1, "created_purchase")
                  /\ UNCHANGED chosen
        ELSE IF ud.mode \in {"create_repair", "create_purchase"}
        THEN handle_create_from_text(a, text)
        ELSE /\ Return(a, "text", NoId, "use_menu")
             /\ UNCHANGED <<tickets, user_data, chosen>>
    /\ UNCHANGED <<roles, assign_menus, clock, in_work_acks, outbox>>

\* on_photo_with_caption: a repair ticket from a photo sent in mode
\* create_repair, its caption being the description.
OnPhotoWithCaption(a, caption_in) ==
    /\ CanStart(a)
    /\ LET ud == user_data[a]
           caption == strip(caption_in) IN
        IF ud.mode # "create_repair"
        THEN /\ Return(a, "photo", NoId, "how_to_file")
             /\ UNCHANGED <<tickets, user_data, chosen>>
        ELSE IF FalsyStr(caption)
        THEN /\ Return(a, "photo", NoId, "add_caption")
             /\ UNCHANGED <<tickets, user_data, chosen>>
        ELSE IF FalsyStr(ud.repair_location)
        THEN /\ user_data' = [user_data EXCEPT ![a].mode = "choose_location_repair"]
             /\ Return(a, "photo", NoId, "choose_location")
             /\ UNCHANGED <<tickets, chosen>>
        ELSE /\ tickets' = create_ticket(tickets, KIND_REPAIR, a, caption,
                               ud.repair_location, ud.repair_equipment,
                               ud.repair_priority, clock)
             /\ user_data' = [user_data EXCEPT ![a] = CancelRepair(@)]
             /\ Return(a, "photo", Len(tickets) + 1, "created_repair")
             /\ UNCHANGED chosen
    /\ UNCHANGED <<roles, assign_menus, clock, in_work_acks, outbox>>

(* ---------------------- cb_handler: need_buy -------------------------- *)

NeedBuy(a, tid) ==
    /\ CanStart(a)
    /\ LET t == get_ticket(tid) IN
        IF t = NoTicket \/ t.kind # KIND_REPAIR
        THEN /\ Return(a, "need_buy", tid, "bad_ticket")
             /\ UNCHANGED user_data
        ELSE IF t.assignee_id # a /\ ~is_admin(a)
        THEN /\ Return(a, "need_buy", tid, "only_assignee_or_admin")
             /\ UNCHANGED user_data
        ELSE /\ user_data' = [user_data EXCEPT ![a].mode = "await_buy_desc",
                                               ![a].buy_ctx = tid]
             /\ Return(a, "need_buy", tid, "what_to_buy")
    /\ UNCHANGED <<tickets, roles, assign_menus, clock, in_work_acks, chosen, outbox>>

(* --- notify_admins_ticket / notify_techs_ticket / notify_admins loops --- *)

\* db_list_roles()[0]: the admins of the source, the environment and the table.
db_list_admins ==
    HARD_ADMIN_IDS \cup env_admin_ids \cup {u \in DOMAIN users : users[u] = "admin"}

\* The first of the sorted ids in queue.
First(queue) == CHOOSE u \in queue : \A v \in queue : u <= v

\* SELECT ... FROM tickets WHERE user_id=? ORDER BY id DESC LIMIT 1: the id of
\* the author's newest ticket, 0 when they have none.
LatestTicketOf(tbl, author_uid) ==
    IF \E i \in 1..Len(tbl) : tbl[i].user_id = author_uid
    THEN CHOOSE i \in 1..Len(tbl) :
            /\ tbl[i].user_id = author_uid
            /\ \A j \in 1..Len(tbl) : tbl[j].user_id = author_uid => j <= i
    ELSE NoId

\* The locals of a handler inside a notification loop: the ticket it sends
\* and the recipients still to come.
NotifyLoc(tid, t, queue) ==
    [tid |-> tid, t |-> t, now_iso |-> NoId, val |-> None, queue |-> queue]

\* handle_create_from_text up to its notification loops: the ticket is
\* inserted and committed, the author is answered (an answer that fails
\* raises out of the handler), and the first loop is entered.
CreateFromText(a, text) ==
    /\ CanStart(a)
    /\ user_data[a].mode \in {"create_repair", "create_purchase"}
    /\ LET ud == user_data[a]
           description == strip(text) IN
        IF FalsyStr(description)
        THEN /\ Return(a, "text", NoId, "describe_in_text")
             /\ UNCHANGED <<tickets, user_data>>
        ELSE IF ud.mode = "create_repair" /\ FalsyStr(ud.repair_location)
        THEN /\ user_data' = [user_data EXCEPT ![a].mode = "choose_location_repair"]
             /\ Return(a, "text", NoId, "choose_location")
             /\ UNCHANGED tickets
        ELSE /\ tickets' =
                    IF ud.mode = "create_repair"
                    THEN create_ticket(tickets, KIND_REPAIR, a, description,
                            ud.repair_location, ud.repair_equipment,
                            ud.repair_priority, clock)
                    ELSE create_ticket(tickets, KIND_PURCHASE, a, description,
                            None, None, None, clock)
             /\ UNCHANGED user_data
             /\ \E answered \in BOOLEAN :
                    IF ~answered
                    THEN Return(a, "text", Len(tickets) + 1, "raised")
                    ELSE IF ud.mode = "create_repair"
                    THEN LET tid == LatestTicketOf(tickets', a) IN
                         Goto(a, "notify_admins_ticket",
                              NotifyLoc(tid, tickets'[tid], db_list_admins))
                    ELSE Goto(a, "notify_admins",
                              NotifyLoc(Len(tickets) + 1, tickets'[Len(tickets) + 1],
                                        db_list_admins))
    /\ UNCHANGED <<roles, assign_menus, clock, in_work_acks, chosen, outbox>>

\* The end of a loop: notify_techs_ticket follows notify_admins_ticket; after
\* the last loop the handler resets the dialogue and returns.
LoopDone(a) ==
    CASE pc[a] = "notify_admins_ticket" ->
            /\ Goto(a, "notify_techs_ticket",
                    NotifyLoc(loc[a].tid, loc[a].t, db_list_techs))
            /\ UNCHANGED user_data
      [] pc[a] = "notify_techs_ticket" ->
            /\ user_data' = [user_data EXCEPT ![a] = CancelRepair(@)]
            /\ Return(a, "text", loc[a].tid, "created_repair")
      [] pc[a] = "notify_admins" ->
            /\ user_data' = [user_data EXCEPT ![a].mode = None]
            /\ Return(a, "text", loc[a].tid, "created_purchase")

\* A loop without its try: a delivery that fails raises out of the handler.
Notify_Raise(a) ==
    /\ pc[a] \in {"notify_admins_ticket", "notify_techs_ticket", "notify_admins"}
    /\ IF loc[a].queue = {}
       THEN LoopDone(a) /\ UNCHANGED outbox
       ELSE \E delivered \in BOOLEAN :
            /\ outbox' = outbox \cup {[to |-> First(loc[a].queue), tid |-> loc[a].tid,
                                       loop |-> pc[a], delivered |-> delivered]}
            /\ IF delivered
               THEN Goto(a, pc[a], [loc[a] EXCEPT !.queue = @ \ {First(loc[a].queue)}])
               ELSE Return(a, "text", loc[a].tid, "raised")
            /\ UNCHANGED user_data
    /\ UNCHANGED <<tickets, roles, assign_menus, clock, in_work_acks, chosen>>

\* One turn of a notification loop: send_ticket_card (or send_message in
\* notify_admins) to the next recipient inside try / except Exception, the
\* failure only logged; after the last recipient, the end of the loop.
Notify(a) ==
    /\ pc[a] \in {"notify_admins_ticket", "notify_techs_ticket", "notify_admins"}
    /\ IF loc[a].queue = {}
       THEN LoopDone(a) /\ UNCHANGED outbox
       ELSE \E delivered \in BOOLEAN :
            /\ outbox' = outbox \cup {[to |-> First(loc[a].queue), tid |-> loc[a].tid,
                                       loop |-> pc[a], delivered |-> delivered]}
            /\ Goto(a, pc[a], [loc[a] EXCEPT !.queue = @ \ {First(loc[a].queue)}])
            /\ UNCHANGED user_data
    /\ UNCHANGED <<tickets, roles, assign_menus, clock, in_work_acks, chosen>>

(* ------------------------------- clock -------------------------------- *)

Tick ==
    /\ clock < MaxClock
    /\ clock' = clock + 1
    /\ reply' = NoReply
    /\ UNCHANGED <<tickets, roles, assign_menus, user_data, pc, loc, in_work_acks, chosen, outbox>>

(* --------------------------- specifications --------------------------- *)

\* One ticket as create_ticket leaves it: a repair ticket filed through the
\* wizard with priority normal by the admin or by a mechanic, or a purchase
\* ticket filed by a mechanic.
InitTickets ==
    {create_ticket(<<>>, KIND_REPAIR, u, "d", "l", "e", "normal", 1) : u \in {1, 2}}
    \cup
    {create_ticket(<<>>, KIND_PURCHASE, 2, "d", None, None, None, 1)}

\* Two mechanics in the users table, nobody in a dialogue, no handler running.
InitRest ==
    /\ users = [u \in Actors |-> IF u \in {2, 3} THEN "tech" ELSE None]
    /\ env_admin_ids = {}
    /\ user_data = [a \in Actors |-> NoUserData]
    /\ pc = [a \in Actors |-> "idle"]
    /\ loc = [a \in Actors |-> NoLoc]
    /\ clock = 1
    /\ reply = NoReply
    /\ assign_menus = [a \in Actors |-> NoMenu]
    /\ in_work_acks = {}
    /\ chosen = [a \in Actors |-> NoChoice]
    /\ outbox = {}

\* The dispatcher of build_application: one handler at a time.
Init ==
    /\ tickets \in InitTickets
    /\ concurrent_updates = 1
    /\ InitRest

\* A dispatcher that runs MaxInFlight handlers at once, and a repair ticket.
RaceInit ==
    /\ tickets \in {tbl \in InitTickets : tbl[1].kind = KIND_REPAIR}
    /\ concurrent_updates = MaxInFlight
    /\ InitRest

\* Entry segments of the handlers that assign, claim or complete a ticket
\* (an update arrives for user a).
BeginClaim(a) ==
    \/ \E tid \in 1..Len(tickets) : \E assignee \in db_list_techs :
            AssignTo(a, tid, assignee)
    \/ \E tid \in TidInputs : AssignSelf(a, tid)
    \/ \E tid \in TidInputs : ToWorkGet(a, tid)
    \/ \E tid \in TidInputs : DoneGet(a, tid)

\* Later segments of those handlers.
ContinueClaim(a) ==
    \/ ToWorkCheck(a)
    \/ ToWorkAssign(a)
    \/ ToWorkStatus(a)
    \/ DoneBackfill(a)
    \/ DoneStatus(a)

\* The remaining callback handlers, the reason text and /start.
BeginOther(a) ==
    \/ \E tid \in TidInputs : PrioGet(a, tid)
    \/ \E tid \in TidInputs : Decline(a, tid)
    \/ \E tid \in TidInputs : Approve(a, tid)
    \/ \E tid \in TidInputs : Reject(a, tid)
    \/ \E text \in ReasonTexts : ReasonGet(a, text)
    \/ Start(a)

ContinueOther(a) ==
    \/ PrioWrite(a)
    \/ ReasonApply(a)

\* Every ticket operation, one handler at a time.
Next ==
    \E a \in Actors :
        BeginClaim(a) \/ ContinueClaim(a) \/ BeginOther(a) \/ ContinueOther(a)

Spec == Init /\ [][Next]_vars

\* Assignment, claim and completion of a repair ticket, interleaved at their
\* awaits, with the clock advancing at any moment.
RaceNext ==
    \/ \E a \in Actors : BeginClaim(a) \/ ContinueClaim(a)
    \/ Tick

RaceSpec == RaceInit /\ [][RaceNext]_vars

\* A repair ticket and the dispatcher of build_application.
ClockInit ==
    /\ tickets \in {tbl \in InitTickets : tbl[1].kind = KIND_REPAIR}
    /\ concurrent_updates = 1
    /\ InitRest

\* Assignment, claim and completion one handler at a time, while time passes.
ClockSpec == ClockInit /\ [][RaceNext]_vars

\* A repair ticket of mechanic 2 with one of the priorities of the priority
\* keyboard (pr_map), and the dispatcher of build_application.
PrioInit ==
    /\ tickets \in {create_ticket(<<>>, KIND_REPAIR, 2, "d", "l", "e", p, 1) :
                        p \in {"low", "normal"}}
    /\ concurrent_updates = 1
    /\ InitRest

\* Raising the priority, among claim, completion and decline of the ticket.
PrioNext ==
    \E a \in Actors :
        \/ \E tid \in TidInputs : PrioGet(a, tid)
        \/ PrioWrite(a)
        \/ \E tid \in TidInputs : ToWorkGet(a, tid)
        \/ \E tid \in TidInputs : DoneGet(a, tid)
        \/ ContinueClaim(a)
        \/ \E tid \in TidInputs : Decline(a, tid)
        \/ \E text \in ReasonTexts : ReasonGet(a, text)
        \/ ReasonApply(a)

PrioSpec == PrioInit /\ [][PrioNext]_vars

\* Every handler that opens or feeds the reason step, among claim, completion
\* and approval, one handler at a time.
ReasonNext ==
    \E a \in Actors :
        \/ \E tid \in TidInputs : Decline(a, tid)
        \/ \E tid \in TidInputs : Reject(a, tid)
        \/ \E text \in ReasonTexts : ReasonGet(a, text)
        \/ ReasonApply(a)
        \/ \E tid \in TidInputs : Approve(a, tid)
        \/ \E tid \in TidInputs : ToWorkGet(a, tid)
        \/ \E tid \in TidInputs : DoneGet(a, tid)
        \/ ContinueClaim(a)
        \/ Start(a)

ReasonSpec == Init /\ [][ReasonNext]_vars

\* The ticket ids a callback can carry: ensure_int of the text after the colon,
\* None (0 here) when it is no number, an id of no row when the card is not of
\* this table.
CallbackIds == 0..(Len(tickets) + 1)

\* Decisions on tickets named by any callback id, and the reasons typed after.
LostNext ==
    \E a \in Actors :
        \/ \E tid \in CallbackIds : Reject(a, tid)
        \/ \E tid \in CallbackIds : Decline(a, tid)
        \/ \E tid \in TidInputs : Approve(a, tid)
        \/ \E text \in ReasonTexts : ReasonGet(a, text)
        \/ ReasonApply(a)
        \/ Start(a)

LostSpec == Init /\ [][LostNext]_vars

\* A text message of user a: the reason of a pending decision in mode
\* await_reason, any other step of on_text_button otherwise.
TextMessage(a, text) ==
    \/ ReasonGet(a, text)
    \/ OnTextButton(a, text)

\* The messages and presses of a user filing tickets, as long as the table
\* has room for a new ticket.
FileTicket(a) ==
    /\ Len(tickets) < MaxTickets
    /\ \/ \E text \in TextInputs : TextMessage(a, text)
       \/ \E caption \in CaptionInputs : OnPhotoWithCaption(a, caption)
       \/ \E tid \in TidInputs : NeedBuy(a, tid)
       \/ \E tid \in TidInputs : Reject(a, tid)
       \/ \E tid \in TidInputs : Decline(a, tid)
       \/ ReasonApply(a)
       \/ Start(a)

\* A repair ticket of mechanic 2 is in the table.
DialogueInit ==
    /\ tickets = create_ticket(<<>>, KIND_REPAIR, 2, "d", "l", "e", "normal", 1)
    /\ concurrent_updates = 1
    /\ InitRest

\* Filing tickets through the dialogue, among decisions on the tickets.
DialogueNext ==
    \E a \in DialogueUsers : FileTicket(a)

DialogueSpec == DialogueInit /\ [][DialogueNext]_vars

\* The hard-coded admin 1, mechanic 2 and user 3 without a role.
RoleInit ==
    /\ tickets \in InitTickets
    /\ concurrent_updates = 1
    /\ users = [u \in Actors |-> IF u = 2 THEN "tech" ELSE None]
    /\ env_admin_ids = {}
    /\ user_data = [a \in Actors |-> NoUserData]
    /\ pc = [a \in Actors |-> "idle"]
    /\ loc = [a \in Actors |-> NoLoc]
    /\ clock = 1
    /\ reply = NoReply
    /\ assign_menus = [a \in Actors |-> NoMenu]
    /\ in_work_acks = {}
    /\ chosen = [a \in Actors |-> NoChoice]
    /\ outbox = {}

\* The user whose role the commands change.
RoleTargets == {3}

\* The role commands; the hard-coded admin can be named for removal.
RoleCommand(a) ==
    \/ \E target \in RoleTargets : AddTech(a, target)
    \/ \E target \in RoleTargets : AddAdmin(a, target)
    \/ \E target \in RoleTargets \cup HARD_ADMIN_IDS : RemoveMechanic(a, target)

\* to_work, approve, reject and the reason text.
ClaimOrDecide(a) ==
    \/ \E tid \in TidInputs : ToWorkGet(a, tid)
    \/ ToWorkCheck(a)
    \/ ToWorkAssign(a)
    \/ ToWorkStatus(a)
    \/ \E tid \in TidInputs : Approve(a, tid)
    \/ \E tid \in TidInputs : Reject(a, tid)
    \/ \E text \in ReasonTexts : ReasonGet(a, text)
    \/ ReasonApply(a)

\* Roles granted and revoked between the presses, one handler at a time.
RoleNext ==
    \E a \in Actors : RoleCommand(a) \/ ClaimOrDecide(a)

RoleSpec == RoleInit /\ [][RoleNext]_vars

\* The hard-coded admin 1, user 2 named in ADMIN_IDS and holding a mechanic's
\* row, and user 3 without a role.
SeedInit ==
    /\ tickets \in InitTickets
    /\ concurrent_updates = 1
    /\ users = [u \in Actors |-> IF u = 2 THEN "tech" ELSE None]
    /\ env_admin_ids = {2}
    /\ user_data = [a \in Actors |-> NoUserData]
    /\ pc = [a \in Actors |-> "idle"]
    /\ loc = [a \in Actors |-> NoLoc]
    /\ clock = 1
    /\ reply = NoReply
    /\ assign_menus = [a \in Actors |-> NoMenu]
    /\ in_work_acks = {}
    /\ chosen = [a \in Actors |-> NoChoice]
    /\ outbox = {}

\* /add_tech, /add_admin and /remove_mechanic of any user about any user.
SeedNext ==
    \E a \in Actors : \E target \in Actors :
        \/ AddTech(a, target)
        \/ AddAdmin(a, target)
        \/ RemoveMechanic(a, target)

SeedSpec == SeedInit /\ [][SeedNext]_vars

\* The hard-coded admin 1, the stored admin 2 and mechanic 3, and a repair
\* ticket of user 2 in the table.
NotifyInit ==
    /\ tickets = create_ticket(<<>>, KIND_REPAIR, 2, "d", "l", "e", "normal", 1)
    /\ concurrent_updates = 1
    /\ users = [u \in Actors |-> IF u = 2 THEN "admin" ELSE IF u = 3 THEN "tech" ELSE None]
    /\ env_admin_ids = {}
    /\ user_data = [a \in Actors |-> NoUserData]
    /\ pc = [a \in Actors |-> "idle"]
    /\ loc = [a \in Actors |-> NoLoc]
    /\ clock = 1
    /\ reply = NoReply
    /\ assign_menus = [a \in Actors |-> NoMenu]
    /\ in_work_acks = {}
    /\ chosen = [a \in Actors |-> NoChoice]
    /\ outbox = {}

\* The users who file tickets while the notifications are followed.
NotifyUsers == {3}

\* The texts they send: the two menu buttons, one pick at each step of the
\* repair dialogue, a description and a blank.
NotifyTexts == {MENU_REPAIR, MENU_PURCHASE, "loc1", "eq1", PRIO_NORMAL, "x", " "}

\* The dialogue up to the description, then the handler of the description
\* turn by turn of its notification loops.
NotifyNext ==
    \E a \in NotifyUsers :
        \/ /\ Len(tickets) < MaxTickets
           /\ user_data[a].mode \notin {"create_repair", "create_purchase"}
           /\ \E text \in NotifyTexts : OnTextButton(a, text)
        \/ /\ Len(tickets) < MaxTickets
           /\ \E text \in NotifyTexts : CreateFromText(a, text)
        \/ Notify(a)

NotifySpec == NotifyInit /\ [][NotifyNext]_vars

\* The assign_menu keyboard and a press of one of its buttons: the ticket id
\* is read from the card the keyboard is under.
AssignFromMenu(a) ==
    \/ \E tid \in TidInputs : AssignMenu(a, tid)
    \/ \E assignee \in assign_menus[a].techs :
            AssignTo(a, assign_menus[a].tid, assignee)

\* Roles granted and revoked between the rendering of the assign_menu
\* keyboard and the press of its buttons, one handler at a time.
MenuNext ==
    \E a \in Actors : RoleCommand(a) \/ AssignFromMenu(a)

MenuSpec == RoleInit /\ [][MenuNext]_vars

(* ------------------------------- claims -------------------------------- *)

TicketIds == 1..Len(tickets)

\* The segments of to_work and of done that follow their get_ticket.
ToWorkPcs == {"to_work_check", "to_work_assign", "to_work_status"}
DonePcs == {"done_backfill", "done_status"}

\* This step ends handler op of user a on ticket tid with an answer.
Answers(a, op, tid) ==
    reply'.uid = a /\ reply'.op = op /\ reply'.tid = tid

\* This step ends handle_reason_input of user a, whose pending action on
\* ticket tid was action.
ReasonAnswers(a, action, tid) ==
    /\ Answers(a, "reason", tid)
    /\ user_data[a].reason_ctx.action = action

\* This step takes handler to_work (done) of user a on ticket tid past its
\* guards.
Proceeds(a, pcs, tid) ==
    pc[a] = "idle" /\ pc'[a] \in pcs /\ loc'[a].tid = tid

C2_ClaimIsOneStep ==
    /\ \A a \in Actors :
        (pc[a] = "to_work_status" /\ FalsyInt(loc[a].t.assignee_id))
            => ~(get_ticket(loc[a].tid).assignee_id = a
                 /\ get_ticket(loc[a].tid).status = STATUS_NEW)
    /\ \A x \in in_work_acks :
        (x.assignee_id = NoId /\ reply = Answer(x.uid, "to_work", x.tid, "in_work"))
            => get_ticket(x.tid).assignee_id = x.uid

\* What the running handler of a has observed of its ticket: the row it
\* read, with its own earlier write applied.
Observed(a) ==
    IF pc[a] = "to_work_status" /\ FalsyInt(loc[a].t.assignee_id)
    THEN [loc[a].t EXCEPT !.assignee_id = a]
    ELSE loc[a].t

C4_StaleClaimRejected ==
    [][\A c \in Actors : \A tid \in TicketIds :
        (/\ tickets[tid].kind = KIND_REPAIR
         /\ tickets[tid].status = STATUS_IN_WORK
         /\ tickets[tid].assignee_id \notin {NoId, c}
         /\ Answers(c, "to_work", tid) \/ Proceeds(c, ToWorkPcs, tid))
        => /\ reply' = Answer(c, "to_work", tid, "not_new")
           /\ tickets' = tickets]_vars

\* C4 witness: mechanic 3 has just been refused ticket 1, which is in work
\* with mechanic 2.
C4_Witness ==
    /\ reply = Answer(3, "to_work", 1, "not_new")
    /\ get_ticket(1).kind = KIND_REPAIR
    /\ get_ticket(1).status = STATUS_IN_WORK
    /\ get_ticket(1).assignee_id = 2

\* C5: a repair ticket whose status is done, rejected or canceled is never
\* changed again, in any field, by any step.
C5_RepairTerminalAbsorbing ==
    [][\A tid \in TicketIds :
        (/\ tickets[tid].kind = KIND_REPAIR
         /\ tickets[tid].status \in {STATUS_DONE, STATUS_REJECTED, STATUS_CANCELED})
        => tickets'[tid] = tickets[tid]]_vars

\* C6: approve, and reject with its reason, aimed at a purchase ticket whose
\* status is approved, rejected or canceled leave the ticket unchanged and do
\* not answer with success.
C6_PurchaseOnlyFromNew ==
    [][\A a \in Actors : \A tid \in TicketIds :
        (/\ tickets[tid].kind = KIND_PURCHASE
         /\ tickets[tid].status \in {STATUS_APPROVED, STATUS_REJECTED, STATUS_CANCELED}
         /\ \/ Answers(a, "approve", tid)
            \/ Answers(a, "reject", tid)
            \/ ReasonAnswers(a, "reject", tid))
        => /\ tickets'[tid] = tickets[tid]
           /\ reply'.msg \notin {"approved", "rejected"}]_vars

\* The statuses of each kind.
StatusDomain(kind) ==
    IF kind = KIND_REPAIR
    THEN {STATUS_NEW, STATUS_IN_WORK, STATUS_DONE, STATUS_REJECTED, STATUS_CANCELED}
    ELSE {STATUS_NEW, STATUS_APPROVED, STATUS_REJECTED, STATUS_CANCELED}

\* C7: the status of every ticket is one of the statuses of its kind; approve
\* and reject aimed at a repair ticket, and to_work, done and decline aimed at
\* a purchase ticket, leave that ticket unchanged.
C7_StatusDomainByKind ==
    /\ [](\A tid \in TicketIds : tickets[tid].status \in StatusDomain(tickets[tid].kind))
    /\ [][\A a \in Actors : \A tid \in TicketIds :
            /\ (/\ tickets[tid].kind = KIND_REPAIR
                /\ \/ Answers(a, "approve", tid)
                   \/ Answers(a, "reject", tid)
                   \/ ReasonAnswers(a, "reject", tid))
               => tickets'[tid] = tickets[tid]
            /\ (/\ tickets[tid].kind = KIND_PURCHASE
                /\ \/ Answers(a, "to_work", tid)
                   \/ Answers(a, "done", tid)
                   \/ Answers(a, "decline", tid)
                   \/ ReasonAnswers(a, "decline_repair", tid)
                   \/ (pc'[a] \in ToWorkPcs \cup DonePcs /\ loc'[a].tid = tid))
               => tickets'[tid] = tickets[tid]]_vars

\* C8: the status of a repair ticket becomes done (by done) or rejected (by
\* decline and its reason) only from in_work; done and decline aimed at a new
\* repair ticket are refused and leave the ticket unchanged.
C8_DoneRejectedOnlyFromInWork ==
    [][\A a \in Actors : \A tid \in TicketIds :
        tickets[tid].kind = KIND_REPAIR =>
            /\ (/\ tickets'[tid].status # tickets[tid].status
                /\ \/ tickets'[tid].status = STATUS_DONE
                   \/ ReasonAnswers(a, "decline_repair", tid))
               => tickets[tid].status = STATUS_IN_WORK
            /\ tickets[tid].status = STATUS_NEW
               => /\ ~Proceeds(a, DonePcs, tid)
                  /\ ~(Answers(a, "decline", tid) /\ reply'.msg = "write_reason")
                  /\ (Answers(a, "done", tid) \/ Answers(a, "decline", tid))
                        => tickets'[tid] = tickets[tid]]_vars

\* C9: done pressed by a user who is neither the assignee of the ticket nor
\* an admin is refused and changes no ticket; a handler of done that has
\* passed its guards belongs to the assignee or to an admin.
C9_CompleteOnlyAssigneeOrAdmin ==
    [][\A a \in Actors : \A tid \in TicketIds :
        /\ (/\ tickets[tid].assignee_id # a
            /\ ~is_admin(a)
            /\ Answers(a, "done", tid) \/ Proceeds(a, DonePcs, tid))
           => /\ reply' \in {Answer(a, "done", tid, "only_assignee_or_admin"),
                             Answer(a, "done", tid, "bad_ticket")}
              /\ tickets' = tickets
        /\ (pc[a] \in DonePcs /\ loc[a].tid = tid /\ tickets'[tid] # tickets[tid])
           => (tickets[tid].assignee_id = a \/ is_admin(a))]_vars

\* C9 witness: mechanic 3 has just been refused done on ticket 1, which is in
\* work with mechanic 2.
C9_Witness ==
    /\ reply = Answer(3, "done", 1, "only_assignee_or_admin")
    /\ get_ticket(1).status = STATUS_IN_WORK
    /\ get_ticket(1).assignee_id = 2

\* C10: when the reason of a decline of an in-work repair ticket is applied,
\* the ticket becomes rejected with that reason if the user is its assignee
\* or an admin, and stays as it is for any other user; decline is offered
\* the reason prompt exactly to the assignee and to admins.
C10_DeclineByAssigneeOrAdmin ==
    [][\A a \in Actors : \A tid \in TicketIds :
        (tickets[tid].kind = KIND_REPAIR /\ tickets[tid].status = STATUS_IN_WORK) =>
            /\ (pc[a] = "reason_apply" /\ ReasonAnswers(a, "decline_repair", tid))
               => IF tickets[tid].assignee_id = a \/ is_admin(a)
                  THEN tickets'[tid] = [tickets[tid] EXCEPT
                            !.status = STATUS_REJECTED, !.reason = loc[a].val]
                  ELSE tickets'[tid] = tickets[tid]
            /\ Answers(a, "decline", tid)
               => /\ tickets'[tid] = tickets[tid]
                  /\ reply'.msg = "write_reason"
                        <=> (tickets[tid].assignee_id = a \/ is_admin(a))]_vars

\* The reason messages that are empty or whitespace only.
BlankTexts == {"", " "}

C12_DecisionNeedsAdminAtWrite ==
    [][\A a \in Actors : \A tid \in TicketIds :
        (/\ tickets[tid].kind = KIND_PURCHASE
         /\ tickets'[tid].status # tickets[tid].status
         /\ Answers(a, "approve", tid) \/ ReasonAnswers(a, "reject", tid))
        => is_admin(a)]_vars

\* C13: no step of to_work taken for a user who is neither mechanic nor
\* admin changes the status, the assignee or started_at of the ticket, and
\* such a user is never told that the ticket is in work.
C13_ClaimNeedsTechnician ==
    [][\A a \in Actors : \A tid \in TicketIds :
        (/\ ~is_tech(a)
         /\ \/ Answers(a, "to_work", tid)
            \/ Proceeds(a, ToWorkPcs, tid)
            \/ (pc[a] \in ToWorkPcs /\ loc[a].tid = tid))
        => /\ tickets'[tid].status = tickets[tid].status
           /\ tickets'[tid].assignee_id = tickets[tid].assignee_id
           /\ tickets'[tid].started_at = tickets[tid].started_at
           /\ reply'.msg # "in_work"]_vars

\* A new repair ticket filed by an admin, with no assignee.
AdminAuthoredUnassigned(t) ==
    /\ t.kind = KIND_REPAIR
    /\ t.status = STATUS_NEW
    /\ is_admin(t.user_id)
    /\ FalsyInt(t.assignee_id)

\* This step belongs to to_work of user a on ticket tid.
ToWorkStep(a, tid) ==
    \/ Answers(a, "to_work", tid)
    \/ Proceeds(a, ToWorkPcs, tid)
    \/ (pc[a] \in ToWorkPcs /\ loc[a].tid = tid /\ pc'[a] # pc[a])

\* C14: to_work on a new, unassigned repair ticket filed by an admin: a
\* mechanic who is not an admin is answered "an admin must assign it" and no
\* ticket changes; an admin is not refused, becomes the assignee and the
\* ticket goes in work.
C14_AdminAuthoredRule ==
    [][\A a \in Actors : \A tid \in TicketIds :
        /\ (/\ AdminAuthoredUnassigned(tickets[tid])
            /\ is_tech(a) /\ ~is_admin(a)
            /\ ToWorkStep(a, tid))
           => /\ tickets' = tickets
              /\ pc'[a] \in {"idle", "to_work_check"}
              /\ pc'[a] = "idle"
                    => reply' = Answer(a, "to_work", tid, "admin_must_assign")
        /\ (/\ AdminAuthoredUnassigned(tickets[tid])
            /\ is_admin(a)
            /\ ToWorkStep(a, tid))
           => pc'[a] \in ToWorkPcs
        /\ (/\ pc[a] = "to_work_status" /\ pc'[a] # pc[a]
            /\ loc[a].tid = tid
            /\ AdminAuthoredUnassigned(loc[a].t)
            /\ is_admin(a))
           => /\ tickets'[tid].status = STATUS_IN_WORK
              /\ tickets'[tid].assignee_id = a
              /\ reply' = Answer(a, "to_work", tid, "in_work")]_vars

\* C14 witness: mechanic 2 has just been refused ticket 1, which the admin
\* filed and nobody is assigned to.
C14_Witness ==
    /\ reply = Answer(2, "to_work", 1, "admin_must_assign")
    /\ is_tech(2) /\ ~is_admin(2)
    /\ AdminAuthoredUnassigned(get_ticket(1))

\* C15: to_work on a repair ticket whose stored assignee is another user
\* changes no ticket and ends with a refusal ("assigned to another" or "not
\* new"), whoever presses.
C15_AssignedToOtherRefused ==
    [][\A a \in Actors : \A tid \in TicketIds :
        (/\ tickets[tid].kind = KIND_REPAIR
         /\ tickets[tid].assignee_id \notin {NoId, a}
         /\ ToWorkStep(a, tid))
        => /\ tickets' = tickets
           /\ pc'[a] = "idle"
                => reply' \in {Answer(a, "to_work", tid, "assigned_to_other"),
                               Answer(a, "to_work", tid, "not_new")}]_vars

\* This step is an admin assignment (assign_to or assign_self) of user a on
\* ticket tid that answers "assigned".
Assigns(a, tid) ==
    /\ Answers(a, "assign_to", tid) \/ Answers(a, "assign_self", tid)
    /\ reply'.msg = "assigned"

\* C16: an admin assignment on a new repair ticket leaves the ticket in work
\* with an assignee (the presser, for assign_self).
C16_AssignmentMovesToInWork ==
    [][\A a \in Actors : \A tid \in TicketIds :
        (/\ tickets[tid].kind = KIND_REPAIR
         /\ tickets[tid].status = STATUS_NEW
         /\ Assigns(a, tid))
        => /\ tickets'[tid].status = STATUS_IN_WORK
           /\ ~FalsyInt(tickets'[tid].assignee_id)
           /\ Answers(a, "assign_self", tid) => tickets'[tid].assignee_id = a]_vars

\* C17: an admin assignment aimed at a ticket that is not a new repair ticket
\* leaves its assignee as it is.
C17_AssignmentOnlyOnNewRepair ==
    [][\A a \in Actors : \A tid \in TicketIds :
        (/\ ~(tickets[tid].kind = KIND_REPAIR /\ tickets[tid].status = STATUS_NEW)
         /\ Answers(a, "assign_to", tid) \/ Answers(a, "assign_self", tid))
        => tickets'[tid].assignee_id = tickets[tid].assignee_id]_vars

\* C18: the user stored as assignee by assign_to is a mechanic or an admin
\* when the assignment is made.
C18_AssigneeIsTechnician ==
    [][\A a \in Actors : \A tid \in TicketIds :
        (Answers(a, "assign_to", tid) /\ reply'.msg = "assigned")
        => is_tech(tickets'[tid].assignee_id)]_vars

\* C19: a repair ticket has an assignee exactly when its status is in_work,
\* done or rejected.
C19_AssigneeIffStarted ==
    \A tid \in TicketIds :
        tickets[tid].kind = KIND_REPAIR
        => (~FalsyInt(tickets[tid].assignee_id)
                <=> tickets[tid].status \in {STATUS_IN_WORK, STATUS_DONE, STATUS_REJECTED})

\* C20: a ticket with a started_at has an assignee.
C20_StartedImpliesAssignee ==
    \A tid \in TicketIds :
        ~FalsyInt(tickets[tid].started_at) => ~FalsyInt(tickets[tid].assignee_id)

C22_StartedAtWrittenOnce ==
    [][\A tid \in TicketIds :
        ~FalsyInt(tickets[tid].started_at)
        => tickets'[tid].started_at = tickets[tid].started_at]_vars

\* A ticket claimed at time 1 is completed at time 2 and keeps its started_at.
C22_Witness ==
    \E tid \in TicketIds :
        /\ tickets[tid].status = STATUS_DONE
        /\ tickets[tid].started_at = 1
        /\ tickets[tid].done_at = 2
        /\ reply.op = "done" /\ reply.msg = "done"

\* Position of a priority on the scale low < normal < high.
Rank(p) == IndexOf(PRIORITIES, p)

\* C23: no step lowers the priority of a ticket, and a prio press of an admin
\* turns low into normal, normal into high and leaves high as it is, with the
\* ordinary answer.
C23_PriorityMonotonic ==
    [][\A tid \in TicketIds :
        /\ Rank(tickets'[tid].priority) >= Rank(tickets[tid].priority)
        /\ \A a \in Actors :
            (pc[a] = "prio_write" /\ loc[a].tid = tid)
            => /\ tickets'[tid].priority =
                    CASE tickets[tid].priority = "low" -> "normal"
                      [] tickets[tid].priority = "normal" -> "high"
                      [] tickets[tid].priority = "high" -> "high"
               /\ reply' = Answer(a, "prio", tid, "priority")]_vars

\* An admin pressed prio on a ticket that is already high: the handler is about
\* to write high again.
C23_Witness ==
    \E a \in Actors :
        /\ pc[a] = "prio_write"
        /\ is_admin(a)
        /\ get_ticket(loc[a].tid).priority = "high"
        /\ loc[a].val = "high"

\* C24: the priority of a ticket changes only by a prio press of an admin on a
\* repair ticket that is new or in work.
C24_EscalationOnlyOnOpenRepair ==
    [][\A tid \in TicketIds :
        tickets'[tid].priority # tickets[tid].priority
        => /\ \E a \in Actors : pc[a] = "prio_write" /\ loc[a].tid = tid /\ is_admin(a)
           /\ tickets[tid].kind = KIND_REPAIR
           /\ tickets[tid].status \in {STATUS_NEW, STATUS_IN_WORK}]_vars

\* A step of the bot after which user a is asked for the reason of cancelling
\* ticket tid.
CancelBegins(a, tid) ==
    /\ ReasonNext
    /\ user_data'[a].mode = "await_reason"
    /\ user_data'[a].reason_ctx = [action |-> "cancel", ticket_id |-> tid]

C26_ReasonOnlyIfRejectedOrCanceled ==
    \A tid \in TicketIds :
        ~FalsyStr(tickets[tid].reason)
        => tickets[tid].status \in {STATUS_REJECTED, STATUS_CANCELED}

FilesRepair(a) ==
    /\ Len(tickets') = Len(tickets) + 1
    /\ tickets'[Len(tickets')].kind = KIND_REPAIR
    /\ reply'.uid = a

\* C28: a repair ticket is filed only by a text or a photo sent in mode
\* create_repair, and with a location, an equipment, a priority and a
\* description that is not empty.
C28_NoPartialRepairTicket ==
    [][\A a \in Actors :
        FilesRepair(a)
        => LET t == tickets'[Len(tickets')] IN
            /\ ~FalsyStr(t.location)
            /\ ~FalsyStr(t.equipment)
            /\ t.priority \in {"low", "normal", "high"}
            /\ ~FalsyStr(t.description)
            /\ user_data[a].mode = "create_repair"
            /\ reply'.op \in {"text", "photo"}]_vars

\* A repair ticket was filed from a photo with a caption.
C28_Witness ==
    /\ reply.op = "photo" /\ reply.msg = "created_repair"
    /\ Len(tickets) = 2
    /\ tickets[2].kind = KIND_REPAIR
    /\ tickets[2].description = "x"

\* C29: the repair ticket filed at the end of the dialogue has the location,
\* equipment and priority last entered at each step, whatever detours were
\* taken, and the dialogue state of the user is reset.
C29_DialogueComposes ==
    [][\A a \in Actors :
        FilesRepair(a)
        => LET t == tickets'[Len(tickets')] IN
            /\ t.location = chosen[a].location
            /\ t.equipment = chosen[a].equipment
            /\ t.priority = chosen[a].priority
            /\ user_data'[a].mode = None
            /\ user_data'[a].repair_location = None
            /\ user_data'[a].repair_equipment = None
            /\ user_data'[a].repair_priority = None]_vars

\* A user who went back in the dialogue, picked the location from the
\* catalogue and typed the equipment has filed the ticket.
C29_Witness ==
    \E a \in Actors :
        /\ reply = Answer(a, "text", 2, "created_repair")
        /\ chosen[a].went_back
        /\ tickets[2].location = "loc1"
        /\ tickets[2].equipment = "x"
        /\ tickets[2].priority = "low"
        /\ user_data[a].mode = None

\* The step ends the handling of the text LOC_CANCEL sent by user a.
CancelHandled(a) ==
    \/ pc[a] = "idle" /\ pc'[a] = "idle" /\ TextMessage(a, LOC_CANCEL)
    \/ pc[a] = "reason_apply" /\ loc[a].val = LOC_CANCEL /\ ReasonApply(a)

\* C30: the cancel text, sent in any mode of the dialogue or while a reason is
\* awaited, resets the dialogue state of the user and leaves the tickets as
\* they are.
C30_CancelDiscardsSession ==
    [][\A a \in Actors :
        (user_data[a].mode # None /\ CancelHandled(a))
        => /\ tickets' = tickets
           /\ user_data'[a].mode = None
           /\ user_data'[a].repair_location = None
           /\ user_data'[a].repair_equipment = None
           /\ user_data'[a].repair_priority = None]_vars

\* The modes whose keyboard carries the cancel button: the steps of the
\* dialogue before the description.
SelectionModes ==
    {"choose_location_repair", "input_location_repair", "choose_equipment",
     "input_equipment_custom", "choose_priority_repair"}

\* C30, amended: the cancel text resets the dialogue state and leaves the
\* tickets as they are in the modes before the description; from every mode,
\* /start does so.
C30_CancelWhereOffered ==
    [][\A a \in Actors :
        (\/ user_data[a].mode \in SelectionModes /\ CancelHandled(a)
         \/ user_data[a].mode # None /\ Start(a))
        => /\ tickets' = tickets
           /\ user_data'[a].mode = None
           /\ user_data'[a].repair_location = None
           /\ user_data'[a].repair_equipment = None
           /\ user_data'[a].repair_priority = None]_vars

\* A user cancelled the dialogue: nothing is collected and no ticket was filed.
C30_Witness ==
    \E a \in Actors :
        /\ reply = Answer(a, "text", NoId, "cancelled")
        /\ user_data[a].mode = None
        /\ chosen[a] = NoChoice
        /\ Len(tickets) = 1

\* The step a back input leads to from each mode that the claim names.
PreviousStep(mode) ==
    CASE mode = "input_location_repair" -> "choose_location_repair"
      [] mode = "choose_equipment" -> "choose_location_repair"
      [] mode = "input_equipment_custom" -> "choose_equipment"
      [] mode = "choose_priority_repair" -> "choose_equipment"

\* C31: the back text, sent while choosing or typing the equipment, choosing
\* the priority or typing the location, returns the dialogue to the previous
\* step and keeps the location once the equipment step has been reached.
C31_BackKeepsCollected ==
    [][\A a \in Actors :
        (/\ user_data[a].mode \in {"input_location_repair", "choose_equipment",
                                   "input_equipment_custom", "choose_priority_repair"}
         /\ OnTextButton(a, LOC_BACK))
        => /\ user_data'[a].mode = PreviousStep(user_data[a].mode)
           /\ user_data[a].mode \in {"input_equipment_custom", "choose_priority_repair"}
              => user_data'[a].repair_location = user_data[a].repair_location]_vars

\* The step ends the handling of the text message text sent by user a.
TextHandled(a, text) ==
    \/ pc[a] = "idle" /\ pc'[a] = "idle" /\ TextMessage(a, text)
    \/ pc[a] = "reason_apply" /\ loc[a].val = text /\ ReasonApply(a)

\* C32: when a user from whom a reason is awaited sends the text that opens
\* the repair dialogue, the pending reason context is cleared, the dialogue is
\* opened, and no ticket changes its status or reason.
C32_DialogueEntryClearsReason ==
    [][\A a \in Actors :
        (/\ user_data[a].mode = "await_reason"
         /\ user_data[a].reason_ctx.action \in {"reject", "decline_repair"}
         /\ TextHandled(a, MENU_REPAIR))
        => /\ user_data'[a].reason_ctx = NoCtx
           /\ user_data'[a].mode = "choose_location_repair"
           /\ \A tid \in TicketIds :
                /\ tickets'[tid].status = tickets[tid].status
                /\ tickets'[tid].reason = tickets[tid].reason]_vars

\* The repair dialogue of user-data record ud is past its first step with
\* something collected.
MidDialogue(ud) ==
    /\ ud.mode \in {"choose_equipment", "input_equipment_custom",
                    "choose_priority_repair", "create_repair"}
    /\ ud.repair_location # None

\* The step is user a pressing decline or reject and being asked for a reason.
AsksReason(a) ==
    /\ \E tid \in TidInputs : Decline(a, tid) \/ Reject(a, tid)
    /\ reply'.msg = "write_reason"

\* C33: pressing decline or reject in the middle of the repair dialogue clears
\* the dialogue's step and its collected location, equipment and priority and
\* leaves the awaited reason as the only flow; the next text is taken as the
\* reason and files no ticket.
C33_ReasonFlowReplacesDialogue ==
    [][\A a \in Actors :
        /\ (MidDialogue(user_data[a]) /\ AsksReason(a))
            => /\ user_data'[a].mode = "await_reason"
               /\ user_data'[a].repair_location = None
               /\ user_data'[a].repair_equipment = None
               /\ user_data'[a].repair_priority = None
        /\ (user_data[a].mode = "await_reason"
            /\ \E text \in TextInputs : TextHandled(a, text))
            => Len(tickets') = Len(tickets)]_vars

\* The reason context of user-data record ud names no action or no ticket.
ContextLost(ud) ==
    \/ FalsyInt(ud.reason_ctx.ticket_id)
    \/ ud.reason_ctx.action \notin {"cancel", "reject", "decline_repair"}
    \/ get_ticket(ud.reason_ctx.ticket_id) = NoTicket

\* C34: a reason text that arrives when the pending context is missing, or
\* names no valid action or ticket, changes no ticket and leaves the user with
\* no mode and no pending context.
C34_LostContextResets ==
    [][\A a \in Actors : \A text \in ReasonTexts :
        (/\ ~FalsyStr(strip(text))
         /\ ContextLost(user_data[a])
         /\ ReasonGet(a, text))
        => /\ tickets' = tickets
           /\ user_data'[a].mode = None
           /\ user_data'[a].reason_ctx = NoCtx
           /\ pc'[a] = "idle"]_vars

C34_Witness ==
    /\ reply.op = "reason"
    /\ reply.msg \in {"context_lost", "not_found"}
    /\ user_data[reply.uid].mode = None

\* The admins named in the source or in the environment.
SeededAdmins == HARD_ADMIN_IDS \cup env_admin_ids

\* The step is a role command of user a.
RoleCommandOf(a) ==
    \E target \in Actors :
        AddTech(a, target) \/ AddAdmin(a, target) \/ RemoveMechanic(a, target)

\* C35: a grant or a revoke by a user who is no admin leaves the users table
\* as it was, and a revoke whose target is an admin named in the source or in
\* the environment is refused and leaves the users table as it was.
C35_RoleCommandsGuarded ==
    [][\A a \in Actors :
        /\ (~is_admin(a) /\ RoleCommandOf(a)) => users' = users
        /\ \A target \in SeededAdmins :
             RemoveMechanic(a, target)
             => /\ users' = users
                /\ reply'.msg \in {"no_rights", "hard_admin"}]_vars

\* The highest role is_admin and is_tech give user uid.
Capability(uid) ==
    IF is_admin(uid) THEN "Admin"
    ELSE IF is_tech(uid) THEN "Technician"
    ELSE "User"

\* C36: whatever was granted and revoked, every admin named in the source or
\* in the environment is an admin, every admin is a mechanic as well, a user
\* named nowhere and without a row is a plain user, and the revoke of a user
\* who is not named in the source or the environment makes them a plain user
\* again.
C36_RolesResolve ==
    /\ [](\A u \in Actors :
            /\ u \in SeededAdmins => Capability(u) = "Admin"
            /\ is_admin(u) => is_tech(u)
            /\ (u \notin SeededAdmins \cup ENV_TECH_IDS /\ users[u] = None)
                => Capability(u) = "User")
    /\ [][\A a \in Actors : \A target \in Actors \ (SeededAdmins \cup ENV_TECH_IDS) :
            (is_admin(a) /\ RemoveMechanic(a, target))
            => Capability(target)' = "User"]_vars

C36_Witness ==
    /\ reply.op = "remove_mechanic"
    /\ reply.msg = "removed"
    /\ reply.uid \notin SeededAdmins
    /\ Capability(reply.uid) = "User"

FanOutPcs == {"notify_admins_ticket", "notify_techs_ticket", "notify_admins"}

\* The notifications of ticket tid that were tried in the loop named loop.
TriedIn(box, tid, loop) == {m.to : m \in {n \in box : n.tid = tid /\ n.loop = loop}}

\* C37: when a delivery fails in a notification loop after a ticket was
\* created, the loop goes on to the recipients that remain, and the ticket
\* stays as it was written: the handler leaves the loops only after every
\* admin (and, for a repair ticket, every mechanic) was tried, and the row is
\* the one that was inserted.
C37_FanOutIsolated ==
    [][\A a \in Actors :
        (pc[a] \in FanOutPcs /\ Notify(a))
        => /\ tickets' = tickets
           /\ get_ticket(loc[a].tid) = loc[a].t
           /\ pc'[a] = "idle"
              => /\ reply'.msg \in {"created_repair", "created_purchase"}
                 /\ reply'.msg = "created_repair"
                    => /\ TriedIn(outbox', loc[a].tid, "notify_admins_ticket") = db_list_admins
                       /\ TriedIn(outbox', loc[a].tid, "notify_techs_ticket") = db_list_techs
                 /\ reply'.msg = "created_purchase"
                    => TriedIn(outbox', loc[a].tid, "notify_admins") = db_list_admins]_vars

C37_Witness ==
    /\ reply.msg = "created_repair"
    /\ get_ticket(reply.tid).kind = KIND_REPAIR
    /\ \E m \in outbox : m.tid = reply.tid /\ m.to = 1 /\ ~m.delivered
    /\ \E m \in outbox : m.tid = reply.tid /\ m.to = 2
    /\ \E m \in outbox : m.tid = reply.tid /\ m.to = 3 /\ m.loop = "notify_techs_ticket"

\* The step is a text of user a at the priority step that the dialogue
\* accepts as priority p.
PicksPriority(a, p) ==
    /\ \E text \in TextInputs : OnTextButton(a, text)
    /\ user_data'[a].mode = "create_repair"
    /\ user_data'[a].repair_priority = p

\* C38: the repair dialogue can give a ticket every priority: at its priority
\* step some text is accepted as low, some as normal and some as high.
C38_EveryPriorityOffered ==
    \A a \in DialogueUsers :
        (user_data[a].mode = "choose_priority_repair" /\ CanStart(a))
        => \A i \in 1..Len(PRIORITIES) : ENABLED PicksPriority(a, PRIORITIES[i])

C40_DoneAtIffDone ==
    \A tid \in TicketIds :
        tickets[tid].kind = KIND_REPAIR
        => (~FalsyInt(tickets[tid].done_at) <=> tickets[tid].status = STATUS_DONE)

====
